---- MODULE Spec2Model ----
(***************************************************************************)
(* The epoll backend of the event loop (src/epoll.c): the kernel           *)
(* registration table as seen through epoll_ctl, the change applier with   *)
(* its race recovery, the immediate and the batched registration           *)
(* strategies, and epoll_dispatch split at its lock and system-call        *)
(* boundaries.                                                             *)
(*                                                                         *)
(* Interest masks are sets of bit names instead of integers:               *)
(*   EV_READ "R", EV_WRITE "W", EV_CLOSED "C", EV_ET "ET"                  *)
(*   EPOLLIN "IN", EPOLLOUT "OUT", EPOLLRDHUP "RDHUP", EPOLLET "ET",       *)
(*   EPOLLHUP "HUP", EPOLLERR "ERR"                                        *)
(*   EV_CHANGE_ADD "ADD", EV_CHANGE_DEL "DEL", EV_CHANGE_ET "ET"           *)
(***************************************************************************)
EXTENDS Integers, Sequences, FiniteSets, TLC

\* ------------------------------------------------------------------ bounds
\* Interest requests (event_add / event_del reaching the backend) per run.
MaxReq == 3
\* Descriptor-level interference by the application or the system per run
\* (close, reuse of a descriptor number, dup onto a number, watch limit).
MaxEnv == 2
\* Slots a wait call reports when it does not fill the buffer.
MaxSlots == 2

\* ------------------------------------------------------- program constants
INITIAL_NEVENT == 32
MAX_NEVENT == 4096
MAX_EPOLL_TIMEOUT_MSEC == 35 * 60 * 1000

\* Descriptors the loop registers interest in.
Fds == {1, 2}
\* The descriptor number timerfd_create hands out.
TimerFd == 3
\* Descriptors of the rest of a saturated report: BulkFd + i for slot i.
BulkFd == 100

\* A registration is <<mask>>; no registration is the empty sequence.
NoReg == <<>>
Reg(ev) == <<ev>>
InterestBits == {"R", "W", "C"}

\* ------------------------------------------------------------------ kernel
\* Per descriptor: st is "open" (pollable file), "nopoll" (a file that does
\* not support epoll: every control call gives EPERM) or "closed" (EBADF);
\* reg is NoReg or Reg(the registered event mask).  full: the per-user watch
\* limit is reached, so a new registration gives ENOSPC.
KernelInit == [fds |-> [f \in Fds |-> [st |-> "open", reg |-> NoReg]], full |-> FALSE]

\* One epoll_ctl(epfd, op, fd, &epev) call: the kernel table after it and errno.
epoll_ctl(k, op, fd, ev) ==
    LET d == k.fds[fd] IN
    IF d.st = "closed" THEN [k |-> k, err |-> "EBADF"]
    ELSE IF d.st = "nopoll" THEN [k |-> k, err |-> "EPERM"]
    ELSE IF op = "ADD" THEN
        IF d.reg # NoReg THEN [k |-> k, err |-> "EEXIST"]
        ELSE IF k.full THEN [k |-> k, err |-> "ENOSPC"]
        ELSE [k |-> [k EXCEPT !.fds[fd].reg = Reg(ev)], err |-> "OK"]
    ELSE IF d.reg = NoReg THEN [k |-> k, err |-> "ENOENT"]
    ELSE IF op = "MOD" THEN [k |-> [k EXCEPT !.fds[fd].reg = Reg(ev)], err |-> "OK"]
    ELSE [k |-> [k EXCEPT !.fds[fd].reg = NoReg], err |-> "OK"]

\* close(fd) by the application.  The kernel drops the registration with the
\* last reference to the open file; while a duplicate keeps the file open
\* the registration survives the close (the case the comment at
\* src/epoll.c:368 describes: the same file dup'ed back into the same number
\* is found registered).
KernelClose(k, fd, keep) ==
    [k EXCEPT !.fds[fd] = [st |-> "closed", reg |-> IF keep THEN @.reg ELSE NoReg]]

\* close(epfd): the epoll instance goes, and every registration with it.
KernelDestroy(k) == [k EXCEPT !.fds = [f \in Fds |-> [st |-> k.fds[f].st, reg |-> NoReg]]]

\* What another thread may do to the descriptor between the first control
\* call of an apply and its retry.
Races == {"none", "close"}

KernelRace(k, race, fd) == IF race = "close" THEN KernelClose(k, fd, FALSE) ELSE k

\* ------------------------------------------------------------- Op Resolver
\* epolltable-internal.h is not part of the sources at hand; the table is
\* the Op Resolver of the specification (section 4.1).
ChangeAdds(ch) ==
    (IF "ADD" \in ch.read_change THEN {"R"} ELSE {}) \cup
    (IF "ADD" \in ch.write_change THEN {"W"} ELSE {}) \cup
    (IF "ADD" \in ch.close_change THEN {"C"} ELSE {})

ChangeDels(ch) ==
    (IF "DEL" \in ch.read_change THEN {"R"} ELSE {}) \cup
    (IF "DEL" \in ch.write_change THEN {"W"} ELSE {}) \cup
    (IF "DEL" \in ch.close_change THEN {"C"} ELSE {})

resulting_mask(ch) == (ch.old_events \cup ChangeAdds(ch)) \ ChangeDels(ch)

\* EV_READ -> EPOLLIN, EV_WRITE -> EPOLLOUT, EV_CLOSED -> EPOLLRDHUP.
EpollBits(mask) ==
    (IF "R" \in mask THEN {"IN"} ELSE {}) \cup
    (IF "W" \in mask THEN {"OUT"} ELSE {}) \cup
    (IF "C" \in mask THEN {"RDHUP"} ELSE {})

\* The table entry of a change: op 0 is "none".  An unregister entry carries
\* the bits being removed: the applier returns before any control call when
\* the entry's events are zero (src/epoll.c:320), so an entry with an
\* operation has events.
epoll_op_table(ch) ==
    LET old == ch.old_events
        new == resulting_mask(ch)
    IN  IF new = {} /\ old # {} THEN [op |-> "DEL", events |-> EpollBits(old)]
        ELSE IF old = {} /\ new # {} THEN [op |-> "ADD", events |-> EpollBits(new)]
        ELSE IF old # {} /\ new # {} /\ new # old
             THEN [op |-> "MOD", events |-> EpollBits(new)]
        ELSE [op |-> "none", events |-> {}]

\* ---------------------------------------------------------- Change Applier
Call(op, fd, ev, err) == [op |-> op, fd |-> fd, events |-> ev, err |-> err]

\* The outcome of one apply that started on kernel table k0 and left k: the
\* change, the control calls it issued in order, its return value, and the
\* descriptor's registration when it was entered and when it returned.
Applied(k0, k, ch, calls, ret) ==
    [k |-> k, ch |-> ch, calls |-> calls, ret |-> ret,
     before |-> k0.fds[ch.fd].reg, after |-> k.fds[ch.fd].reg]

\* The outcome without the kernel table, as the logs keep it.
Outcome(a) ==
    [ch |-> a.ch, calls |-> a.calls, ret |-> a.ret, before |-> a.before, after |-> a.after]

\* epev.events: the table's events, with EPOLLET when the read or the write
\* change carries EV_CHANGE_ET.
ctl_events(ch) ==
    epoll_op_table(ch).events \cup
    (IF "ET" \in (ch.read_change \cup ch.write_change) THEN {"ET"} ELSE {})

\* The first control call and, after what race does to the descriptor, the
\* retry under the other operation.
FirstCall(k, ch) == epoll_ctl(k, epoll_op_table(ch).op, ch.fd, ctl_events(ch))

RetryOp(op) == IF op = "MOD" THEN "ADD" ELSE "MOD"

RetryCall(k, ch, race) ==
    epoll_ctl(KernelRace(FirstCall(k, ch).k, race, ch.fd),
              RetryOp(epoll_op_table(ch).op), ch.fd, ctl_events(ch))

epoll_apply_one_change_modfails(k, ch, race) ==
    LET e == epoll_op_table(ch)
        r1 == FirstCall(k, ch)
        c1 == Call(e.op, ch.fd, ctl_events(ch), r1.err)
        r2 == RetryCall(k, ch, race)
        c2 == Call(RetryOp(e.op), ch.fd, ctl_events(ch), r2.err)
    IN  IF e.events = {} THEN Applied(k, k, ch, <<>>, 0)
        ELSE IF r1.err = "OK" THEN Applied(k, r1.k, ch, <<c1>>, 0)
        ELSE IF e.op = "ADD" /\ r1.err = "EEXIST"
             THEN Applied(k, r2.k, ch, <<c1, c2>>, IF r2.err = "OK" THEN 0 ELSE -1)
        ELSE IF e.op = "DEL" /\ r1.err \in {"ENOENT", "EBADF", "EPERM"}
             THEN Applied(k, r1.k, ch, <<c1>>, 0)
        ELSE Applied(k, r1.k, ch, <<c1>>, -1)

epoll_apply_one_change_addfails(k, ch, race) ==
    LET e == epoll_op_table(ch)
        r1 == FirstCall(k, ch)
        c1 == Call(e.op, ch.fd, ctl_events(ch), r1.err)
        r2 == RetryCall(k, ch, race)
        c2 == Call(RetryOp(e.op), ch.fd, ctl_events(ch), r2.err)
    IN  IF e.events = {} THEN Applied(k, k, ch, <<>>, 0)
        ELSE IF r1.err = "OK" THEN Applied(k, r1.k, ch, <<c1>>, 0)
        ELSE IF e.op = "MOD" /\ r1.err = "ENOENT"
             THEN Applied(k, r2.k, ch, <<c1, c2>>, IF r2.err = "OK" THEN 0 ELSE -1)
        ELSE IF e.op = "DEL" /\ r1.err \in {"ENOENT", "EBADF", "EPERM"}
             THEN Applied(k, r1.k, ch, <<c1>>, 0)
        ELSE Applied(k, r1.k, ch, <<c1>>, -1)

epoll_apply_one_change_strictdel(k, ch, race) ==
    LET e == epoll_op_table(ch)
        r1 == FirstCall(k, ch)
        c1 == Call(e.op, ch.fd, ctl_events(ch), r1.err)
        r2 == RetryCall(k, ch, race)
        c2 == Call(RetryOp(e.op), ch.fd, ctl_events(ch), r2.err)
    IN  IF e.events = {} THEN Applied(k, k, ch, <<>>, 0)
        ELSE IF r1.err = "OK" THEN Applied(k, r1.k, ch, <<c1>>, 0)
        ELSE IF (e.op = "MOD" /\ r1.err = "ENOENT") \/ (e.op = "ADD" /\ r1.err = "EEXIST")
             THEN Applied(k, r2.k, ch, <<c1, c2>>, IF r2.err = "OK" THEN 0 ELSE -1)
        ELSE IF e.op = "DEL" /\ r1.err = "ENOENT"
             THEN Applied(k, r1.k, ch, <<c1>>, 0)
        ELSE Applied(k, r1.k, ch, <<c1>>, -1)

epoll_apply_one_change_retryok(k, ch, race) ==
    LET e == epoll_op_table(ch)
        r1 == FirstCall(k, ch)
        c1 == Call(e.op, ch.fd, ctl_events(ch), r1.err)
        r2 == RetryCall(k, ch, race)
        c2 == Call(RetryOp(e.op), ch.fd, ctl_events(ch), r2.err)
    IN  IF e.events = {} THEN Applied(k, k, ch, <<>>, 0)
        ELSE IF r1.err = "OK" THEN Applied(k, r1.k, ch, <<c1>>, 0)
        ELSE IF (e.op = "MOD" /\ r1.err = "ENOENT") \/ (e.op = "ADD" /\ r1.err = "EEXIST")
             THEN Applied(k, r2.k, ch, <<c1, c2>>, 0)
        ELSE IF e.op = "DEL" /\ r1.err \in {"ENOENT", "EBADF", "EPERM"}
             THEN Applied(k, r1.k, ch, <<c1>>, 0)
        ELSE Applied(k, r1.k, ch, <<c1>>, -1)

epoll_apply_one_change_nonecalls(k, ch, race) ==
    LET e == epoll_op_table(ch)
        r1 == FirstCall(k, ch)
        c1 == Call(e.op, ch.fd, ctl_events(ch), r1.err)
        r2 == RetryCall(k, ch, race)
        c2 == Call(RetryOp(e.op), ch.fd, ctl_events(ch), r2.err)
    IN  IF r1.err = "OK" THEN Applied(k, r1.k, ch, <<c1>>, 0)
        ELSE IF (e.op = "MOD" /\ r1.err = "ENOENT") \/ (e.op = "ADD" /\ r1.err = "EEXIST")
             THEN Applied(k, r2.k, ch, <<c1, c2>>, IF r2.err = "OK" THEN 0 ELSE -1)
        ELSE IF e.op = "DEL" /\ r1.err \in {"ENOENT", "EBADF", "EPERM"}
             THEN Applied(k, r1.k, ch, <<c1>>, 0)
        ELSE Applied(k, r1.k, ch, <<c1>>, -1)

\* epoll_apply_one_change(base, epollop, ch); race is what happens to the
\* descriptor between the failed first call and the retry.
epoll_apply_one_change(k, ch, race) ==
    LET e == epoll_op_table(ch)
        r1 == FirstCall(k, ch)
        c1 == Call(e.op, ch.fd, ctl_events(ch), r1.err)
        r2 == RetryCall(k, ch, race)
        c2 == Call(RetryOp(e.op), ch.fd, ctl_events(ch), r2.err)
    IN  IF e.events = {} THEN Applied(k, k, ch, <<>>, 0)
        ELSE IF r1.err = "OK" THEN Applied(k, r1.k, ch, <<c1>>, 0)
        ELSE IF (e.op = "MOD" /\ r1.err = "ENOENT") \/ (e.op = "ADD" /\ r1.err = "EEXIST")
             THEN Applied(k, r2.k, ch, <<c1, c2>>, IF r2.err = "OK" THEN 0 ELSE -1)
        ELSE IF e.op = "DEL" /\ r1.err \in {"ENOENT", "EBADF", "EPERM"}
             THEN Applied(k, r1.k, ch, <<c1>>, 0)
        ELSE Applied(k, r1.k, ch, <<c1>>, -1)

\* The retry happens only after a failed first call.
RaceUsed(a) == Len(a.calls) = 2

\* epoll_apply_changes(base): every record of the changelist in order; the
\* result carries the kernel table, the outcomes in order and r.
RECURSIVE apply_changes_from_stop(_, _, _, _, _)
apply_changes_from_stop(k, changes, races, i, n) ==
    IF i > n THEN [k |-> k, log |-> <<>>, r |-> 0]
    ELSE LET a == epoll_apply_one_change(k, changes[i], races[i])
             rest == apply_changes_from_stop(a.k, changes, races, i + 1, n)
         IN  IF a.ret < 0 THEN [k |-> a.k, log |-> <<Outcome(a)>>, r |-> -1]
             ELSE [k |-> rest.k, log |-> <<Outcome(a)>> \o rest.log, r |-> rest.r]

RECURSIVE apply_changes_from(_, _, _, _, _)
apply_changes_from(k, changes, races, i, n) ==
    IF i > n THEN [k |-> k, log |-> <<>>, r |-> 0]
    ELSE LET a == epoll_apply_one_change(k, changes[i], races[i])
             rest == apply_changes_from(a.k, changes, races, i + 1, n)
         IN  [k |-> rest.k, log |-> <<Outcome(a)>> \o rest.log,
              r |-> IF a.ret < 0 THEN -1 ELSE rest.r]

epoll_apply_changes_skiplast(k, changes, races) ==
    apply_changes_from(k, changes, races, 1, Len(changes) - 1)

epoll_apply_changes(k, changes, races) ==
    apply_changes_from(k, changes, races, 1, Len(changes))

\* ------------------------------------------------- immediate registration
NoChange(fd, old) ==
    [fd |-> fd, old_events |-> old,
     read_change |-> {}, write_change |-> {}, close_change |-> {}]

ChangeOf(fd, old, events, what) ==
    [fd |-> fd, old_events |-> old,
     write_change |-> IF "W" \in events THEN {what} \cup (events \cap {"ET"}) ELSE {},
     read_change |-> IF "R" \in events THEN {what} \cup (events \cap {"ET"}) ELSE {},
     close_change |-> IF "C" \in events THEN {what} \cup (events \cap {"ET"}) ELSE {}]

epoll_nochangelist_add(k, fd, old, events, race) ==
    epoll_apply_one_change(k, ChangeOf(fd, old, events, "ADD"), race)

epoll_nochangelist_del(k, fd, old, events, race) ==
    epoll_apply_one_change(k, ChangeOf(fd, old, events, "DEL"), race)

\* --------------------------------------------------- batched registration
\* changelist.c is not part of the sources at hand; the pending list is the
\* collaborator of the specification (sections 3 and 6): one record per
\* descriptor per flush, holding the mask registered at the last flush and
\* the delta from it.
ChangeIndex(cl, fd) ==
    IF \E i \in 1..Len(cl) : cl[i].fd = fd
    THEN CHOOSE i \in 1..Len(cl) : cl[i].fd = fd
    ELSE 0

ChangeFor(cl, fd, old) ==
    IF ChangeIndex(cl, fd) = 0 THEN NoChange(fd, old) ELSE cl[ChangeIndex(cl, fd)]

PutChange(cl, ch) ==
    IF ChangeIndex(cl, ch.fd) = 0 THEN Append(cl, ch)
    ELSE [cl EXCEPT ![ChangeIndex(cl, ch.fd)] = ch]

event_changelist_add_(cl, fd, old, events) ==
    LET c == ChangeFor(cl, fd, old)
        add == {"ADD"} \cup (events \cap {"ET"})
    IN  PutChange(cl,
            [c EXCEPT !.read_change = IF "R" \in events THEN add ELSE @,
                      !.write_change = IF "W" \in events THEN add ELSE @,
                      !.close_change = IF "C" \in events THEN add ELSE @])

event_changelist_del_(cl, fd, old, events) ==
    LET c == ChangeFor(cl, fd, old)
        del == {"DEL"} \cup (events \cap {"ET"})
        Field(bit, cur) ==
            IF bit \notin events THEN cur
            ELSE IF bit \notin c.old_events THEN {} ELSE del
    IN  PutChange(cl,
            [c EXCEPT !.read_change = Field("R", @),
                      !.write_change = Field("W", @),
                      !.close_change = Field("C", @)])

event_changelist_remove_all_(cl) == <<>>

\* ------------------------------------------------------------------- state
VARIABLES
    flags,        \* base->flags: EPOLL_USE_CHANGELIST, IGNORE_ENV, PRECISE_TIMER
    evsel,        \* base->evsel: "epollops" or "epollops_changelist"
    phase,        \* "uninit", "ready", "failed" (epoll_init gave NULL), "dead"
    epollop,      \* struct epollop: epfd, events (slots allocated), nevents, timerfd
    handles,      \* kernel handles this backend holds open
    kernel,       \* the kernel's registration table behind epfd
    want,         \* the caller's bookkeeping: mask it believes registered, per fd
    changelist,   \* base->changelist
    lock,         \* th_base_lock: "loop" (held by the dispatching thread) or "none"
    pc,           \* position of the dispatching thread in epoll_dispatch
    timeout,      \* epoll_dispatch's local: <<timeout of the wait call>>
    wres,         \* what epoll_wait returned: res, errno, the slots written
    sink,         \* evmap_io_active_ calls of the current dispatch call, in order
    ret,          \* <<return value>> of the last dispatch call, <<>> while it runs
    entryChanges, \* the changelist as it was when the dispatch call was entered
    flushLog,     \* outcomes of the applies of the last flush, in order
    immLog,       \* outcome of the last immediate add/del, if any
    growth,       \* last growth step: capacity before it, and what mm_realloc did
    nreq,         \* interest requests so far
    nenv,         \* interference steps so far
    maxwait,      \* tv of the current or the last dispatch call
    timer,        \* the kernel timer behind timerfd: "disarmed", "armed", "expired"
    audit         \* per resource: how often it was acquired and released

vars == <<flags, evsel, phase, epollop, handles, kernel, want, changelist, lock, pc,
          timeout, wres, sink, ret, entryChanges, flushLog, immLog, growth, nreq, nenv,
          maxwait, timer, audit>>

NoEpollop == [epfd |-> -1, events |-> 0, nevents |-> 0, timerfd |-> -1]
NoReport == [res |-> 0, err |-> "none", slots |-> <<>>]
\* A local that holds a value v is <<v>>; outside the call it is <<>>.
NoTimeout == <<>>
NoRet == <<>>
\* alloc: "none" (mm_realloc not called), "ok" or "failed".
Growth(from, alloc) == [from |-> from, alloc |-> alloc]
NoGrowth == Growth(0, "none")

\* What the backend acquires: the polling handle, the struct epollop, the
\* events buffer and the timer handle.
Resources == {"epfd", "epollop", "events", "timerfd"}
NoAudit == [r \in Resources |-> [acquired |-> 0, released |-> 0]]
Acquire(a, rs) ==
    [r \in Resources |-> IF r \in rs THEN [a[r] EXCEPT !.acquired = @ + 1] ELSE a[r]]
Release(a, rs) ==
    [r \in Resources |-> IF r \in rs THEN [a[r] EXCEPT !.released = @ + 1] ELSE a[r]]

\* tv: NULL, or a struct timeval.
NoTv == [null |-> TRUE, sec |-> 0, usec |-> 0]
Tv(sec, usec) == [null |-> FALSE, sec |-> sec, usec |-> usec]

Init ==
    /\ flags \in [changelist : BOOLEAN, ignore_env : BOOLEAN, precise : BOOLEAN]
    /\ evsel = "epollops"
    /\ phase = "uninit"
    /\ epollop = NoEpollop
    /\ handles = {}
    /\ kernel = KernelInit
    /\ want = [f \in Fds |-> {}]
    /\ changelist = <<>>
    /\ lock = "loop"
    /\ pc = "idle"
    /\ timeout = NoTimeout
    /\ wres = NoReport
    /\ sink = <<>>
    /\ ret = NoRet
    /\ entryChanges = <<>>
    /\ flushLog = <<>>
    /\ immLog = <<>>
    /\ growth = NoGrowth
    /\ nreq = 0
    /\ nenv = 0
    /\ maxwait = NoTv
    /\ timer = "disarmed"
    /\ audit = NoAudit

\* --------------------------------------------------------------- epoll_init
\* create: epoll_create1/epoll_create gave a handle; alloc1, alloc2: the two
\* mm_calloc calls succeeded; tcreate: timerfd_create gave a handle; tctl:
\* registering the timer handle succeeded.
init_acquired(create, alloc1, alloc2, tcreated) ==
    (IF create THEN {"epfd"} ELSE {}) \cup
    (IF create /\ alloc1 THEN {"epollop"} ELSE {}) \cup
    (IF create /\ alloc1 /\ alloc2 THEN {"events"} ELSE {}) \cup
    (IF create /\ alloc1 /\ alloc2 /\ tcreated THEN {"timerfd"} ELSE {})

\* Whether the batched strategy is selected: the flag of the base, or the
\* environment variable EVENT_EPOLL_USE_CHANGELIST unless the base ignores
\* the environment.
use_changelist(fl, env) == fl.changelist \/ (~fl.ignore_env /\ env)

epoll_init(create, alloc1, alloc2, env, tcreate, tctl) ==
    /\ phase = "uninit"
    /\ IF ~create \/ ~alloc1 \/ ~alloc2
       THEN /\ phase' = "failed"
            /\ UNCHANGED evsel
            /\ epollop' = NoEpollop
            /\ handles' = {}
            /\ audit' = LET got == init_acquired(create, alloc1, alloc2, FALSE)
                         IN  Release(Acquire(audit, got), got)
       ELSE LET usetimer == flags.precise /\ tcreate /\ tctl IN
            /\ phase' = "ready"
            /\ evsel' = IF use_changelist(flags, env) THEN "epollops_changelist" ELSE evsel
            /\ epollop' = [epfd |-> 0, events |-> INITIAL_NEVENT,
                           nevents |-> INITIAL_NEVENT,
                           timerfd |-> IF usetimer THEN TimerFd ELSE -1]
            /\ handles' = {"epfd"} \cup (IF usetimer THEN {"timerfd"} ELSE {})
            /\ audit' = Release(
                    Acquire(audit, init_acquired(TRUE, TRUE, TRUE, flags.precise /\ tcreate)),
                    IF flags.precise /\ tcreate /\ ~tctl THEN {"timerfd"} ELSE {})
    /\ UNCHANGED <<flags, maxwait, timer, kernel, want, changelist, lock, pc, timeout, wres, sink,
                   ret, entryChanges, flushLog, immLog, growth, nreq, nenv>>

EpollInit ==
    \E create, alloc1, alloc2, env, tcreate, tctl \in BOOLEAN :
        epoll_init(create, alloc1, alloc2, env, tcreate, tctl)

\* ------------------------------------------------------ interest requests
\* The caller (the loop's per-descriptor bookkeeping) passes the mask it
\* believes registered as old and only the bits that change.  It keeps the
\* events of one descriptor all edge-triggered or all level-triggered:
\* descriptor 1 is used edge-triggered, descriptor 2 level-triggered.
ETOf(fd) == IF fd = 1 THEN {"ET"} ELSE {}

\* A request runs under the base lock: in the dispatching thread between two
\* dispatch calls, or in another thread while the lock is released.
CanRequest ==
    /\ phase = "ready"
    /\ nreq < MaxReq
    /\ pc = "idle" \/ lock = "none"

\* A race is drawn only for an apply that retries.
RaceFits(a, race) == race = "none" \/ RaceUsed(a)

ReqAdd(fd, bits) ==
    /\ CanRequest
    /\ bits # {} /\ bits \cap want[fd] = {}
    /\ nreq' = nreq + 1
    /\ IF evsel = "epollops_changelist"
       THEN /\ changelist' =
                 event_changelist_add_(changelist, fd, want[fd], bits \cup ETOf(fd))
            /\ want' = [want EXCEPT ![fd] = @ \cup bits]
            /\ UNCHANGED <<kernel, immLog>>
       ELSE \E race \in Races :
              LET a == epoll_nochangelist_add(kernel, fd, want[fd],
                                              bits \cup ETOf(fd), race)
              IN  /\ RaceFits(a, race)
                  /\ kernel' = a.k
                  /\ immLog' = <<Outcome(a)>>
                  /\ want' = IF a.ret = 0 THEN [want EXCEPT ![fd] = @ \cup bits]
                                          ELSE want
                  /\ UNCHANGED changelist
    /\ UNCHANGED <<flags, evsel, maxwait, timer, audit, phase, epollop, handles, lock, pc, timeout, wres, sink,
                   ret, entryChanges, flushLog, growth, nenv>>

ReqDel(fd, bits) ==
    /\ CanRequest
    /\ bits # {} /\ bits \subseteq want[fd]
    /\ nreq' = nreq + 1
    /\ want' = [want EXCEPT ![fd] = @ \ bits]
    /\ IF evsel = "epollops_changelist"
       THEN /\ changelist' =
                 event_changelist_del_(changelist, fd, want[fd], bits \cup ETOf(fd))
            /\ UNCHANGED <<kernel, immLog>>
       ELSE \E race \in Races :
              LET a == epoll_nochangelist_del(kernel, fd, want[fd],
                                              bits \cup ETOf(fd), race)
              IN  /\ RaceFits(a, race)
                  /\ kernel' = a.k
                  /\ immLog' = <<Outcome(a)>>
                  /\ UNCHANGED changelist
    /\ UNCHANGED <<flags, evsel, maxwait, timer, audit, phase, epollop, handles, lock, pc, timeout, wres, sink,
                   ret, entryChanges, flushLog, growth, nenv>>

\* Descriptor 1 is asked for every combination of interest, descriptor 2 for
\* read interest.
RequestBits(fd) == IF fd = 1 THEN SUBSET InterestBits ELSE {{"R"}}

Add == \E fd \in Fds : \E bits \in RequestBits(fd) : ReqAdd(fd, bits)
Del == \E fd \in Fds : \E bits \in RequestBits(fd) : ReqDel(fd, bits)

\* ------------------------------------------------------------ interference
\* What the application and the system do to a descriptor behind the
\* backend's back.
CanInterfere == phase = "ready" /\ nenv < MaxEnv

EnvUnchanged ==
    UNCHANGED <<flags, evsel, maxwait, timer, audit, phase, epollop, handles, want, changelist, lock, pc, timeout,
                wres, sink, ret, entryChanges, flushLog, immLog, growth, nreq>>

\* close(fd); keep: a duplicate keeps the open file, and its registration, alive.
EnvClose(fd, keep) ==
    /\ CanInterfere
    /\ kernel.fds[fd].st # "closed"
    /\ keep => kernel.fds[fd].reg # NoReg
    /\ kernel' = KernelClose(kernel, fd, keep)
    /\ nenv' = nenv + 1
    /\ EnvUnchanged

\* The number is closed and handed out again for another file: a pollable
\* one ("open") or one that does not support epoll ("nopoll").
EnvReuse(fd, kind) ==
    /\ CanInterfere
    /\ kernel.fds[fd] # [st |-> kind, reg |-> NoReg]
    /\ kernel' = [kernel EXCEPT !.fds[fd] = [st |-> kind, reg |-> NoReg]]
    /\ nenv' = nenv + 1
    /\ EnvUnchanged

\* dup2 of the kept duplicate back into the closed number: the same file
\* under the same number, which the kernel still has registered.
EnvDupBack(fd) ==
    /\ CanInterfere
    /\ kernel.fds[fd].st = "closed" /\ kernel.fds[fd].reg # NoReg
    /\ kernel' = [kernel EXCEPT !.fds[fd].st = "open"]
    /\ nenv' = nenv + 1
    /\ EnvUnchanged

\* The per-user watch limit is reached, or no longer.
EnvLimit ==
    /\ CanInterfere
    /\ kernel' = [kernel EXCEPT !.full = ~@]
    /\ nenv' = nenv + 1
    /\ EnvUnchanged

\* The application interferes with descriptor 1.
RacyFds == {1}

Close == \E fd \in RacyFds, keep \in BOOLEAN : EnvClose(fd, keep)
Reuse == \E fd \in RacyFds, kind \in {"open", "nopoll"} : EnvReuse(fd, kind)
DupBack == \E fd \in RacyFds : EnvDupBack(fd)

\* ----------------------------------------------------------- epoll_dispatch
\* LONG_MAX where it is smallest (src/epoll.c:162).
LONG_MAX == 2147483647

\* evutil_tv_to_msec_ is not part of the sources at hand: whole milliseconds
\* (specification, section 4.4 step 1), a started millisecond counting, and
\* -1 for a time a long cannot hold in milliseconds.
evutil_tv_to_msec_(tv) ==
    IF tv.usec > 1000000 \/ tv.sec > (LONG_MAX - 999) \div 1000 THEN -1
    ELSE tv.sec * 1000 + (tv.usec + 999) \div 1000

\* timerfd_settime(timerfd, 0, &is, NULL): a zero it_value disarms the timer,
\* any other arms it anew; a failed call leaves the timer as it was.  The
\* kernel refuses a negative time and nanoseconds outside 0..999999999.
ValidTv(tv) == tv.sec >= 0 /\ tv.usec >= 0 /\ tv.usec * 1000 <= 999999999

SettimeResults(tv) == IF tv = NoTv \/ ValidTv(tv) THEN BOOLEAN ELSE {FALSE}

timerfd_settime(t, tv, ok) ==
    IF ~ok THEN t
    ELSE IF tv = NoTv \/ (tv.sec = 0 /\ tv.usec = 0) THEN "disarmed"
    ELSE "armed"

\* The timeout handed to epoll_wait: -1 waits indefinitely.
dispatch_timeout_noclamp(ep, tv) ==
    IF ep.timerfd >= 0
    THEN IF tv # NoTv /\ tv.sec = 0 /\ tv.usec = 0 THEN 0 ELSE -1
    ELSE IF tv # NoTv THEN evutil_tv_to_msec_(tv) ELSE -1

dispatch_timeout(ep, tv) ==
    IF ep.timerfd >= 0
    THEN IF tv # NoTv /\ tv.sec = 0 /\ tv.usec = 0 THEN 0 ELSE -1
    ELSE IF tv # NoTv
         THEN LET t == evutil_tv_to_msec_(tv)
              IN  IF t < 0 \/ t > MAX_EPOLL_TIMEOUT_MSEC
                  THEN MAX_EPOLL_TIMEOUT_MSEC ELSE t
         ELSE -1

\* Timeout computation, the flush of the pending changes and the discarding
\* of the list: everything before the lock is released.
DispatchFlush(tv) ==
    /\ phase = "ready" /\ pc = "idle"
    /\ maxwait' = tv
    /\ timeout' = <<dispatch_timeout(epollop, tv)>>
    /\ IF epollop.timerfd >= 0
       THEN \E ok \in SettimeResults(tv) : timer' = timerfd_settime(timer, tv, ok)
       ELSE UNCHANGED timer
    /\ \E races \in [1..Len(changelist) -> Races] :
         LET r == epoll_apply_changes(kernel, changelist, races)
         IN  /\ \A i \in 1..Len(r.log) : races[i] = "none" \/ RaceUsed(r.log[i])
             /\ kernel' = r.k
             /\ flushLog' = r.log
    /\ entryChanges' = changelist
    /\ changelist' = event_changelist_remove_all_(changelist)
    /\ wres' = NoReport
    /\ sink' = <<>>
    /\ ret' = NoRet
    /\ pc' = "flushed"
    /\ UNCHANGED <<flags, evsel, audit, phase, epollop, handles, want, lock, immLog, growth,
                   nreq, nenv>>

\* EVBASE_RELEASE_LOCK(base, th_base_lock); the wait call is issued next.
DispatchRelease_keeplock ==
    /\ pc = "flushed"
    /\ pc' = "waiting"
    /\ UNCHANGED <<flags, evsel, maxwait, timer, audit, phase, epollop, handles, kernel, want, changelist, lock,
                   timeout, wres, sink, ret, entryChanges, flushLog, immLog, growth, nreq, nenv>>

DispatchRelease ==
    /\ pc = "flushed"
    /\ lock' = "none"
    /\ pc' = "waiting"
    /\ UNCHANGED <<flags, evsel, maxwait, timer, audit, phase, epollop, handles, kernel, want, changelist,
                   timeout, wres, sink, ret, entryChanges, flushLog, immLog, growth, nreq, nenv>>

\* epoll_wait returns: -1 with errno, or the number of slots it wrote.
Slot(fd, what) == [fd |-> fd, what |-> what]
WaitError(err) == [res |-> -1, err |-> err, slots |-> <<>>]
WaitSlots(slots) == [res |-> Len(slots), err |-> "none", slots |-> slots]

DispatchWait(reports) ==
    /\ pc = "waiting"
    /\ \E rep \in reports : /\ rep.res <= epollop.nevents
                            /\ wres' = rep
    /\ pc' = "woken"
    /\ UNCHANGED <<flags, evsel, maxwait, timer, audit, phase, epollop, handles, kernel, want, changelist, lock,
                   timeout, sink, ret, entryChanges, flushLog, immLog, growth, nreq, nenv>>

\* EVBASE_ACQUIRE_LOCK(base, th_base_lock).
DispatchAcquire_discard ==
    /\ pc = "woken"
    /\ lock = "none"
    /\ lock' = "loop"
    /\ pc' = "locked"
    /\ changelist' = event_changelist_remove_all_(changelist)
    /\ UNCHANGED <<flags, evsel, maxwait, timer, audit, phase, epollop, handles, kernel, want,
                   timeout, wres, sink, ret, entryChanges, flushLog, immLog, growth, nreq, nenv>>

DispatchAcquire ==
    /\ pc = "woken"
    /\ lock = "none"
    /\ lock' = "loop"
    /\ pc' = "locked"
    /\ UNCHANGED <<flags, evsel, maxwait, timer, audit, phase, epollop, handles, kernel, want, changelist,
                   timeout, wres, sink, ret, entryChanges, flushLog, immLog, growth, nreq, nenv>>

\* The event bits one reported slot is handed to the sink with (before EV_ET).
ReadyBits_hupclosed(what) ==
    IF what \cap {"HUP", "ERR"} # {}
    THEN {"R", "W"} \cup (IF "RDHUP" \in what THEN {"C"} ELSE {})
    ELSE (IF "IN" \in what THEN {"R"} ELSE {}) \cup
         (IF "OUT" \in what THEN {"W"} ELSE {}) \cup
         (IF "RDHUP" \in what THEN {"C"} ELSE {})

ReadyBits(what) ==
    IF what \cap {"HUP", "ERR"} # {}
    THEN {"R", "W"}
    ELSE (IF "IN" \in what THEN {"R"} ELSE {}) \cup
         (IF "OUT" \in what THEN {"W"} ELSE {}) \cup
         (IF "RDHUP" \in what THEN {"C"} ELSE {})

\* Whether the loop over the reported slots reaches evmap_io_active_ for a slot.
Reported_timertoo(slot, timerfd) == ReadyBits(slot.what) # {}

Reported(slot, timerfd) == slot.fd # timerfd /\ ReadyBits(slot.what) # {}

\* The evmap_io_active_ calls of the loop over the reported slots, in order.
ReadinessEvents_untagged(slots, timerfd) ==
    LET Keep(slot) == Reported(slot, timerfd)
        kept == SelectSeq(slots, Keep)
    IN  [i \in 1..Len(kept) |-> [fd |-> kept[i].fd, ev |-> ReadyBits(kept[i].what)]]

ReadinessEvents(slots, timerfd) ==
    LET Keep(slot) == Reported(slot, timerfd)
        kept == SelectSeq(slots, Keep)
    IN  [i \in 1..Len(kept) |->
            [fd |-> kept[i].fd, ev |-> ReadyBits(kept[i].what) \cup {"ET"}]]

\* Whether the buffer is grown: the wait call filled it and it is below the cap.
needs_growth_nocap(nevents, res) == res = nevents

needs_growth(nevents, res) == res = nevents /\ nevents < MAX_NEVENT

\* mm_realloc(epollop->events, n slots): the slots of the buffer afterwards.
mm_realloc(slots, n, ok) == IF ok THEN n ELSE slots

\* The capacity after the growth step; ok: mm_realloc succeeded.
grown_nevents_blind(nevents, ok) == nevents * 2

grown_nevents(nevents, ok) == IF ok THEN nevents * 2 ELSE nevents

\* The return value for a failed wait call.
wait_failure_ret_strict(err) == -1

wait_failure_ret(err) == IF err # "EINTR" THEN -1 ELSE 0

\* Everything after the lock is reacquired.
DispatchProcess ==
    /\ pc = "locked"
    /\ IF wres.res = -1
       THEN /\ ret' = <<wait_failure_ret(wres.err)>>
            /\ growth' = Growth(epollop.nevents, "none")
            /\ UNCHANGED <<sink, epollop>>
       ELSE /\ sink' = ReadinessEvents(wres.slots, epollop.timerfd)
            /\ IF needs_growth(epollop.nevents, wres.res)
               THEN \E ok \in BOOLEAN :
                      LET n == grown_nevents(epollop.nevents, ok)
                      IN  /\ epollop' = [epollop EXCEPT
                                 !.nevents = n,
                                 !.events = mm_realloc(@, epollop.nevents * 2, ok)]
                          /\ growth' = Growth(epollop.nevents,
                                               IF ok THEN "ok" ELSE "failed")
               ELSE /\ growth' = Growth(epollop.nevents, "none")
                    /\ UNCHANGED epollop
            /\ ret' = <<0>>
    /\ timeout' = NoTimeout
    /\ pc' = "idle"
    /\ UNCHANGED <<flags, evsel, maxwait, timer, audit, phase, handles, kernel, want, changelist, lock, wres,
                   entryChanges, flushLog, immLog, nreq, nenv>>

\* ------------------------------------------------------------ epoll_dealloc
\* What epoll_dealloc frees and closes, from the fields of the struct.
dealloc_releases_notimer(ep) ==
    (IF ep.events # 0 THEN {"events"} ELSE {}) \cup
    (IF ep.epfd >= 0 THEN {"epfd"} ELSE {}) \cup
    {"epollop"}

dealloc_releases(ep) ==
    (IF ep.events # 0 THEN {"events"} ELSE {}) \cup
    (IF ep.epfd >= 0 THEN {"epfd"} ELSE {}) \cup
    (IF ep.timerfd >= 0 THEN {"timerfd"} ELSE {}) \cup
    {"epollop"}

epoll_dealloc ==
    /\ phase = "ready" /\ pc = "idle"
    /\ phase' = "dead"
    /\ epollop' = NoEpollop
    /\ handles' = handles \ dealloc_releases(epollop)
    /\ audit' = Release(audit, dealloc_releases(epollop))
    /\ kernel' = IF "epfd" \in dealloc_releases(epollop) THEN KernelDestroy(kernel) ELSE kernel
    /\ timer' = IF "timerfd" \in dealloc_releases(epollop) THEN "disarmed" ELSE timer
    /\ UNCHANGED <<flags, evsel, maxwait, want, changelist, lock, pc, timeout, wres, sink,
                   ret, entryChanges, flushLog, immLog, growth, nreq, nenv>>

\* ----------------------------------------------------------- specifications
WaitBits == {"IN", "OUT", "RDHUP", "HUP", "ERR", "PRI"}
WaitErrors == {WaitError("EINTR"), WaitError("EBADF")}
Tvs == {NoTv}

\* Spec: the registration side.  A loop created with no flag set, so that
\* the environment decides between the immediate and the batched strategy,
\* watching two descriptors, with interference on descriptor 1; the wait
\* call fails, reports nothing or reports descriptor 1 readable.
FewReports == WaitErrors \cup {WaitSlots(<<>>), WaitSlots(<<Slot(1, {"IN"})>>)}

InitPlain == Init /\ ~flags.precise /\ ~flags.changelist /\ ~flags.ignore_env

Dispatch ==
    \/ \E tv \in Tvs : DispatchFlush(tv)
    \/ DispatchRelease
    \/ DispatchWait(FewReports)
    \/ DispatchAcquire
    \/ DispatchProcess

Next ==
    \/ EpollInit
    \/ Add
    \/ Del
    \/ Close
    \/ Reuse
    \/ DupBack
    \/ EnvLimit
    \/ Dispatch
    \/ epoll_dealloc

Spec == InitPlain /\ [][Next]_vars

\* SpecReport: the reporting side.  No interest changes; the wait call
\* reports one slot of any descriptor and any event bits, a few slots, or a
\* long run of slots that comes close to the buffer's capacity or fills it.
Bulk(n, first) ==
    WaitSlots([i \in 1..n |-> IF i = 1 THEN first ELSE Slot(BulkFd + i, {"IN"})])

ReportFds == Fds \cup {TimerFd}

RichReports(ep) ==
    WaitErrors \cup {WaitSlots(<<>>)}
    \cup {WaitSlots(<<Slot(fd, what)>>) : fd \in ReportFds, what \in SUBSET WaitBits \ {{}}}
    \cup {WaitSlots(<<Slot(TimerFd, {"IN"}), Slot(1, {"IN"}), Slot(2, {"OUT"})>>),
          WaitSlots(<<Slot(2, {"HUP"}), Slot(TimerFd, {"IN"}), Slot(1, {"PRI"})>>)}
    \cup {Bulk(n, first) : n \in {10, ep.nevents - 1, ep.nevents},
                           first \in {Slot(1, {"IN"}), Slot(TimerFd, {"IN"})}}

DispatchReport ==
    \/ \E tv \in Tvs : DispatchFlush(tv)
    \/ DispatchRelease
    \/ DispatchWait(RichReports(epollop))
    \/ DispatchAcquire
    \/ DispatchProcess

NextReport ==
    \/ EpollInit
    \/ DispatchReport
    \/ epoll_dealloc

SpecReport == Init /\ [][NextReport]_vars

\* SpecTimer: the timing side.  No interest changes; dispatch is called with
\* no deadline, a zero one, short and long ones, one past the clamp, one a
\* long cannot hold in milliseconds, a negative one and one with a full
\* second of microseconds.  The wait call returns when its timeout has run
\* out, when the armed timer has expired, or (without any promise that it
\* ever happens) when a descriptor is ready or the call fails.
TimerTvs ==
    {NoTv, Tv(0, 0), Tv(0, 1), Tv(0, 1500), Tv(1, 0), Tv(2100, 0), Tv(2100, 1),
     Tv(2147484, 0), Tv(-1, 0), Tv(0, 1000000)}

\* The deadline of the armed timer passes.
TimerExpires ==
    /\ phase = "ready"
    /\ timer = "armed"
    /\ timer' = "expired"
    /\ UNCHANGED <<flags, evsel, phase, epollop, handles, kernel, want, changelist, lock, pc,
                   timeout, wres, sink, ret, entryChanges, flushLog, immLog, growth,
                   nreq, nenv, maxwait, audit>>

\* epoll_wait returns 0 after timeout milliseconds.
DispatchWaitTimeout ==
    /\ timeout # NoTimeout /\ timeout[1] >= 0
    /\ DispatchWait({WaitSlots(<<>>)})

\* epoll_wait reports the registered timer handle readable.
DispatchWaitTimer ==
    /\ epollop.timerfd >= 0 /\ timer = "expired"
    /\ DispatchWait({WaitSlots(<<Slot(TimerFd, {"IN"})>>)})

\* epoll_wait reports a descriptor or fails.
DispatchWaitReady == DispatchWait(WaitErrors \cup {WaitSlots(<<Slot(1, {"IN"})>>)})

NextTimer ==
    \/ EpollInit
    \/ \E tv \in TimerTvs : DispatchFlush(tv)
    \/ DispatchRelease
    \/ TimerExpires
    \/ DispatchWaitTimeout
    \/ DispatchWaitTimer
    \/ DispatchWaitReady
    \/ DispatchAcquire
    \/ DispatchProcess
    \/ epoll_dealloc

\* The dispatching thread runs on once it is in epoll_dispatch, time passes,
\* and the kernel returns from a wait whose timeout or timer has run out.
SpecTimer ==
    /\ Init /\ [][NextTimer]_vars
    /\ WF_vars(DispatchRelease)
    /\ WF_vars(TimerExpires)
    /\ WF_vars(DispatchWaitTimeout)
    /\ WF_vars(DispatchWaitTimer)
    /\ WF_vars(DispatchAcquire)
    /\ WF_vars(DispatchProcess)

\* ------------------------------------------------------------------ claims
\* Outcomes of the applies the logs hold: those of the last flush and the
\* last immediate add or del.
Outcomes ==
    {flushLog[i] : i \in 1..Len(flushLog)} \cup {immLog[i] : i \in 1..Len(immLog)}

LastCall(a) == a.calls[Len(a.calls)]

\* What a successful apply leaves in the kernel for its descriptor.
EffectSeen(a) ==
    (a.ret = 0 /\ a.calls # <<>> /\ LastCall(a).err = "OK") =>
        a.after = IF LastCall(a).op = "DEL" THEN NoReg ELSE Reg(LastCall(a).events)

\* C1: from the end of the flush until the wait call has returned, every
\* change record that was pending when dispatch was entered has been applied,
\* in order, with the effect of each successful control call in the kernel's
\* table, and at the moment the lock is released none of them is still pending.
ChangesAppliedBeforeWait ==
    pc \in {"flushed", "waiting", "woken"} =>
        /\ Len(flushLog) = Len(entryChanges)
        /\ \A i \in 1..Len(entryChanges) :
              /\ flushLog[i].ch = entryChanges[i]
              /\ EffectSeen(flushLog[i])
        /\ pc = "flushed" => changelist = <<>>

WitnessC1 ==
    /\ pc = "waiting"
    /\ Len(entryChanges) = 2
    /\ \A i \in 1..2 : /\ flushLog[i].ch = entryChanges[i]
                        /\ flushLog[i].ret = 0
                        /\ flushLog[i].calls # <<>>
                        /\ flushLog[i].after # NoReg

\* C2: the dispatching thread does not hold the lock while the wait call is
\* outstanding and holds it everywhere else in dispatch and on return; the
\* flush and the emission of readiness events are steps that begin and end
\* with the lock held.
DispatchTouchesShared ==
    \/ flushLog' # flushLog
    \/ entryChanges' # entryChanges
    \/ (changelist # <<>> /\ changelist' = <<>>)
    \/ sink' # sink

LockAroundWait ==
    /\ [](/\ pc \in {"waiting", "woken"} => lock = "none"
          /\ pc \in {"idle", "flushed", "locked"} => lock = "loop")
    /\ [][DispatchTouchesShared => (lock = "loop" /\ lock' = "loop")]_vars

WitnessC2 ==
    /\ pc = "idle" /\ lock = "loop"
    /\ ret = <<-1>>
    /\ flushLog # <<>>

\* C3: with no interference, whenever no change is pending the kernel's
\* mask of every descriptor is the net of the interest requested for it, in
\* the immediate and in the batched strategy alike.
NetReg(fd) == IF want[fd] = {} THEN NoReg ELSE Reg(EpollBits(want[fd]) \cup ETOf(fd))

NetMaskWhateverBatching ==
    (phase = "ready" /\ nenv = 0 /\ changelist = <<>>) =>
        \A fd \in Fds : kernel.fds[fd].reg = NetReg(fd)

\* C4: as claimed: an update that fails with ENOENT is retried once as
\* register with the same descriptor and mask, and the apply succeeds.
StaleUpdate(a) ==
    a.calls # <<>> /\ a.calls[1].op = "MOD" /\ a.calls[1].err = "ENOENT"

RetriedAs(a, op) ==
    /\ Len(a.calls) = 2
    /\ a.calls[2].op = op
    /\ a.calls[2].fd = a.calls[1].fd
    /\ a.calls[2].events = a.calls[1].events

StaleUpdateAlwaysSucceeds ==
    \A a \in Outcomes :
        StaleUpdate(a) => /\ RetriedAs(a, "ADD")
                          /\ a.calls[2].err = "OK"
                          /\ a.ret = 0
                          /\ a.after = Reg(a.calls[1].events)

\* C4, amended: an update that fails with ENOENT is retried exactly once as
\* register with the same descriptor and mask; the apply succeeds, leaving
\* the descriptor registered with the mask, when the retry succeeds, and
\* returns an error without a further call when the retry fails.
StaleUpdateRetriedOnce ==
    \A a \in Outcomes :
        StaleUpdate(a) =>
            /\ RetriedAs(a, "ADD")
            /\ a.calls[2].err = "OK" => (a.ret = 0 /\ a.after = Reg(a.calls[1].events))
            /\ a.calls[2].err # "OK" => a.ret = -1

WitnessC4 ==
    \E a \in Outcomes :
        /\ StaleUpdate(a) /\ RetriedAs(a, "ADD")
        /\ a.calls[2].err = "OK" /\ a.ret = 0
        /\ a.after = Reg(a.calls[1].events)

\* C5: as claimed: a register that fails with EEXIST is retried once as
\* update with the same mask, and the apply succeeds with the effect of a
\* direct update.
DuplicateRegister(a) ==
    a.calls # <<>> /\ a.calls[1].op = "ADD" /\ a.calls[1].err = "EEXIST"

DuplicateRegisterAlwaysSucceeds ==
    \A a \in Outcomes :
        DuplicateRegister(a) => /\ RetriedAs(a, "MOD")
                                /\ a.calls[2].err = "OK"
                                /\ a.ret = 0
                                /\ a.after = Reg(a.calls[1].events)

\* C5, amended: a register that fails with EEXIST is retried exactly once as
\* update with the same mask; when the retry succeeds the apply returns
\* success and the registration is the requested mask, as after a direct
\* update; when the retry fails the apply returns an error without a further
\* call.
DuplicateRegisterRetriedOnce ==
    \A a \in Outcomes :
        DuplicateRegister(a) =>
            /\ RetriedAs(a, "MOD")
            /\ a.calls[2].err = "OK" => (a.ret = 0 /\ a.after = Reg(a.calls[1].events))
            /\ a.calls[2].err # "OK" => a.ret = -1

WitnessC5 ==
    \E a \in Outcomes :
        /\ DuplicateRegister(a) /\ RetriedAs(a, "MOD")
        /\ a.calls[2].err = "OK" /\ a.ret = 0
        /\ a.before # NoReg /\ a.before # Reg(a.calls[1].events)
        /\ a.after = Reg(a.calls[1].events)

\* C6: as claimed: an unregister that fails with ENOENT, EBADF or EPERM
\* returns success after that one call and the descriptor is unregistered.
AbsentUnregister(a) ==
    /\ a.calls # <<>>
    /\ a.calls[1].op = "DEL"
    /\ a.calls[1].err \in {"ENOENT", "EBADF", "EPERM"}

AbsentUnregisterLeavesNone ==
    \A a \in Outcomes :
        AbsentUnregister(a) => (a.ret = 0 /\ Len(a.calls) = 1 /\ a.after = NoReg)

\* C6, amended: an unregister that fails with ENOENT, EBADF or EPERM returns
\* success after that one call, with no retry and no error, and leaves the
\* kernel's table as the failed call found it: unregistered after ENOENT and
\* EPERM, and after EBADF whatever registration survived the close.
AbsentUnregisterIsSuccess ==
    \A a \in Outcomes :
        AbsentUnregister(a) =>
            /\ a.ret = 0
            /\ Len(a.calls) = 1
            /\ a.after = a.before
            /\ a.calls[1].err \in {"ENOENT", "EPERM"} => a.after = NoReg

WitnessC6 ==
    \E a \in Outcomes :
        /\ AbsentUnregister(a) /\ a.calls[1].err = "EPERM"
        /\ a.ret = 0 /\ Len(a.calls) = 1 /\ a.after = NoReg

\* C7: as claimed: after a dispatch call whose wait call filled the buffer
\* the capacity is double what it was, up to 4096; otherwise it is unchanged.
Returned == phase = "ready" /\ pc = "idle" /\ ret # NoRet

Doubled(n) == IF 2 * n > MAX_NEVENT THEN MAX_NEVENT ELSE 2 * n

CapacityAlwaysDoubles ==
    /\ phase = "ready" => epollop.nevents <= MAX_NEVENT
    /\ Returned =>
         epollop.nevents = IF wres.res = growth.from THEN Doubled(growth.from)
                                                     ELSE growth.from

\* C7, amended: after a dispatch call whose wait call filled the buffer the
\* capacity is double what it was, up to 4096, unless the reallocation
\* failed, and then it is unchanged; it is unchanged when the wait call
\* reported fewer events or failed; it never exceeds 4096.
CapacityDoublesUnlessAllocFails ==
    /\ phase = "ready" => epollop.nevents <= MAX_NEVENT
    /\ Returned =>
         /\ growth.alloc = "failed" => wres.res = growth.from
         /\ epollop.nevents =
              IF wres.res = growth.from /\ growth.alloc # "failed"
              THEN Doubled(growth.from) ELSE growth.from

WitnessC7 ==
    /\ Returned
    /\ growth.from = 2 * INITIAL_NEVENT /\ growth.alloc = "none"
    /\ wres.res = 10
    /\ epollop.nevents = 2 * INITIAL_NEVENT

\* C8: for a report of a few slots, every slot that is not the timer
\* handle's and has an error or hangup bit reaches the sink as readable and
\* writable and not peer-closed; every other such slot reaches it with
\* readable, writable and peer-closed each set exactly when its kernel bit is.
FewSlots == Len(wres.slots) <= MaxSlots + 1

SinkBits(fd) == {sink[j].ev \ {"ET"} : j \in {j \in 1..Len(sink) : sink[j].fd = fd}}

ErrorOrHangupIsReadWrite ==
    (Returned /\ ret = <<0>> /\ FewSlots) =>
        \A i \in 1..Len(wres.slots) :
            LET s == wres.slots[i] IN
            s.fd # epollop.timerfd =>
                IF s.what \cap {"HUP", "ERR"} # {}
                THEN SinkBits(s.fd) = {{"R", "W"}}
                ELSE /\ s.what \cap {"IN", "OUT", "RDHUP"} # {} => SinkBits(s.fd) # {}
                     /\ \A b \in SinkBits(s.fd) :
                           /\ "R" \in b <=> "IN" \in s.what
                           /\ "W" \in b <=> "OUT" \in s.what
                           /\ "C" \in b <=> "RDHUP" \in s.what

WitnessC8 ==
    /\ Returned /\ ret = <<0>>
    /\ wres.slots = <<Slot(1, {"HUP", "RDHUP", "IN"})>>
    /\ sink = <<[fd |-> 1, ev |-> {"R", "W", "ET"}]>>

\* C9: while a timer handle is held, no readiness event of a dispatch call
\* carries its descriptor.
TimerNeverReported ==
    (phase = "ready" /\ epollop.timerfd >= 0) =>
        \A j \in 1..Len(sink) : sink[j].fd # epollop.timerfd

WitnessC9 ==
    /\ Returned /\ ret = <<0>>
    /\ epollop.timerfd = TimerFd
    /\ \E i \in 1..Len(wres.slots) :
         wres.slots[i].fd = TimerFd /\ "IN" \in wres.slots[i].what
    /\ sink # <<>>

\* C10: a dispatch call returns -1 exactly when its wait call failed with an
\* errno other than EINTR; after EINTR it returns 0 with no readiness event;
\* a change that failed in the flush does not change the return value.
ErrorOnlyFromWait ==
    Returned =>
        /\ ret = <<-1>> <=> (wres.res = -1 /\ wres.err # "EINTR")
        /\ ret # <<-1>> => ret = <<0>>
        /\ (wres.res = -1 /\ wres.err = "EINTR") => sink = <<>>

WitnessC10 ==
    /\ Returned /\ ret = <<0>>
    /\ wres.res = -1 /\ wres.err = "EINTR"
    /\ \E i \in 1..Len(flushLog) : flushLog[i].ret = -1

\* C11: the timeout of the wait call is determined by whether a timer handle
\* is active and by max_wait.  Without a timer handle: no deadline waits
\* indefinitely (-1), a zero deadline gives 0, a deadline gives its whole
\* milliseconds, 2100000 when they are more than that or the conversion is
\* negative.  With a timer handle: 0 for a deadline of exactly zero, -1
\* otherwise.  It is never above 2100000.
InDispatch == pc \in {"flushed", "waiting", "woken", "locked"}

ZeroWait == ~maxwait.null /\ maxwait.sec = 0 /\ maxwait.usec = 0

TimeoutFromTimerAndMaxWait ==
    InDispatch =>
        LET t == timeout[1]
            ms == evutil_tv_to_msec_(maxwait)
        IN  /\ Len(timeout) = 1
            /\ t <= 2100000
            /\ (epollop.timerfd >= 0 /\ ZeroWait) => t = 0
            /\ (epollop.timerfd >= 0 /\ ~ZeroWait) => t = -1
            /\ (epollop.timerfd < 0 /\ maxwait.null) => t = -1
            /\ (epollop.timerfd < 0 /\ ZeroWait) => t = 0
            /\ (epollop.timerfd < 0 /\ ~maxwait.null /\ ms < 0) => t = 2100000
            /\ (epollop.timerfd < 0 /\ ~maxwait.null /\ ms > 2100000) => t = 2100000
            /\ (epollop.timerfd < 0 /\ ~maxwait.null /\ ms \in 0..2100000) => t = ms

WitnessC11 ==
    /\ pc = "waiting"
    /\ epollop.timerfd < 0
    /\ maxwait = Tv(2100, 1)
    /\ timeout = <<2100000>>

\* C12: a dispatch call with a deadline returns in the end, whether or not a
\* descriptor ever becomes ready.
DeadlineEndsDispatch == (pc = "flushed" /\ ~maxwait.null) ~> (pc = "idle")

\* C13: nothing is released that is not held, and nothing is held when it
\* should not be.  A failed init has released everything it acquired and
\* leaves no state; after a successful init the polling handle, the struct
\* and the buffer are held, and the timer handle is held exactly when the
\* struct records one (a timer handle that could not be registered has been
\* closed again); after teardown everything acquired has been released once.
Held(r) == audit[r].acquired - audit[r].released

NothingLeaked ==
    /\ \A r \in Resources : audit[r].acquired <= 1 /\ Held(r) \in {0, 1}
    /\ phase = "uninit" => audit = NoAudit
    /\ phase = "failed" =>
          /\ \A r \in Resources : Held(r) = 0
          /\ handles = {} /\ epollop = NoEpollop
    /\ phase = "ready" =>
          /\ \A r \in {"epfd", "epollop", "events"} : Held(r) = 1
          /\ Held("timerfd") = 1 <=> epollop.timerfd >= 0
          /\ handles = {"epfd"} \cup (IF epollop.timerfd >= 0 THEN {"timerfd"} ELSE {})
    /\ phase = "dead" =>
          /\ \A r \in Resources : Held(r) = 0
          /\ \A r \in {"epfd", "epollop", "events"} : audit[r].released = 1
          /\ handles = {}

WitnessC13 ==
    /\ phase = "dead"
    /\ audit["timerfd"].released = 1
    /\ growth.alloc = "ok"

\* C14: the operation an apply starts with follows from the previous mask
\* and the three change fields alone: unregister when the resulting mask is
\* empty and the previous one is not, register when the previous mask is
\* empty and the resulting one is not, update when both are non-empty and
\* differ, none otherwise; and for none the apply returns success without
\* any control call.
FieldOf(ch, bit) ==
    IF bit = "R" THEN ch.read_change
    ELSE IF bit = "W" THEN ch.write_change ELSE ch.close_change

MaskAfter(ch) ==
    {b \in InterestBits :
        \/ "ADD" \in FieldOf(ch, b)
        \/ b \in ch.old_events /\ "DEL" \notin FieldOf(ch, b)}

OpFor(old, new) ==
    IF new = {} /\ old # {} THEN "DEL"
    ELSE IF old = {} /\ new # {} THEN "ADD"
    ELSE IF old # {} /\ new # {} /\ old # new THEN "MOD"
    ELSE "none"

OpStarted(a) == IF a.calls = <<>> THEN "none" ELSE a.calls[1].op

OperationFromMasks ==
    \A a \in Outcomes :
        /\ OpStarted(a) = OpFor(a.ch.old_events, MaskAfter(a.ch))
        /\ OpFor(a.ch.old_events, MaskAfter(a.ch)) = "none" => a.calls = <<>> /\ a.ret = 0

WitnessC14 ==
    \E a \in Outcomes :
        /\ a.ch.old_events = {"R"}
        /\ "ADD" \in a.ch.read_change
        /\ a.calls = <<>> /\ a.ret = 0

\* C15: every control call of an apply carries the edge-triggered bit
\* exactly when an active change field of the record (read, write or
\* peer-closed) carries the edge-triggered flag.
CarriesET(ch) ==
    \E b \in InterestBits :
        FieldOf(ch, b) \cap {"ADD", "DEL"} # {} /\ "ET" \in FieldOf(ch, b)

EdgeTriggerFromAnyField ==
    \A a \in Outcomes : \A i \in 1..Len(a.calls) :
        "ET" \in a.calls[i].events <=> CarriesET(a.ch)

\* C16: the flush applies each record that was pending exactly once, in the
\* order of the list, also the records after one whose apply failed, and
\* leaves the pending list empty whatever the applies returned.
Attempted(a) ==
    OpFor(a.ch.old_events, MaskAfter(a.ch)) # "none" => a.calls # <<>>

FlushAppliesAllInOrder ==
    /\ Len(flushLog) = Len(entryChanges)
    /\ \A i \in 1..Len(flushLog) :
          /\ flushLog[i].ch = entryChanges[i]
          /\ Attempted(flushLog[i])
          /\ i > 1 => \A c \in 1..Len(flushLog[i - 1].calls) :
                          flushLog[i - 1].calls[c].fd # flushLog[i].ch.fd
    /\ pc = "flushed" => changelist = <<>>

WitnessC16 ==
    /\ pc = "flushed" /\ changelist = <<>>
    /\ Len(entryChanges) = 2
    /\ flushLog[1].ret = -1
    /\ flushLog[2].calls # <<>> /\ flushLog[2].ret = 0

\* C17, as claimed: an apply issues at most two control calls and none for
\* the operation none; a second call is the retry of an update that failed
\* with ENOENT, as register, or of a register that failed with EEXIST, as
\* update; every other failed control call, a failed retry included, is the
\* last call of the apply and makes it return an error.
RetryCase(c) ==
    \/ c.op = "MOD" /\ c.err = "ENOENT"
    \/ c.op = "ADD" /\ c.err = "EEXIST"

BoundedRetry(a) ==
    /\ Len(a.calls) <= 2
    /\ OpFor(a.ch.old_events, MaskAfter(a.ch)) = "none" => a.calls = <<>>
    /\ Len(a.calls) = 2 =>
          /\ RetryCase(a.calls[1])
          /\ a.calls[2].op = RetryOp(a.calls[1].op)
    /\ (a.calls # <<>> /\ RetryCase(a.calls[1])) => Len(a.calls) = 2

\* The last call of the apply failed, and not as a retry case still to be retried.
EndsInFailure(a) == a.calls # <<>> /\ LastCall(a).err # "OK"

LenientDel(c) == c.op = "DEL" /\ c.err \in {"ENOENT", "EBADF", "EPERM"}

EveryOtherFailureIsError ==
    \A a \in Outcomes :
        /\ BoundedRetry(a)
        /\ EndsInFailure(a) => a.ret = -1

\* C17, amended: as above, except that an unregister failing with ENOENT,
\* EBADF or EPERM is the last call of the apply and makes it return success.
EveryOtherFailureButAbsentDelIsError ==
    \A a \in Outcomes :
        /\ BoundedRetry(a)
        /\ (EndsInFailure(a) /\ ~LenientDel(LastCall(a))) => a.ret = -1
        /\ (EndsInFailure(a) /\ LenientDel(LastCall(a))) => a.ret = 0 /\ Len(a.calls) = 1
        /\ (a.calls # <<>> /\ LastCall(a).err = "OK") => a.ret = 0

WitnessC17 ==
    \E a \in Outcomes :
        /\ Len(a.calls) = 2
        /\ a.calls[1].op = "ADD" /\ a.calls[1].err = "EEXIST"
        /\ a.calls[2].err = "EBADF"
        /\ a.ret = -1

\* C18: what a dispatch call has handed to the sink when it returns is the
\* reported slots in the kernel's order, without the timer handle's slot and
\* the slots that map to no event bit, one event per remaining slot with
\* the mapped bits and the edge-triggered tag; nothing when the wait call
\* was interrupted or failed; and nothing before the wait has returned.
EventOf(s, timerfd) ==
    IF s.fd = timerfd \/ ReadyBits(s.what) = {} THEN <<>>
    ELSE <<[fd |-> s.fd, ev |-> ReadyBits(s.what) \cup {"ET"}]>>

\* The events of slots lo..hi, in order (halving keeps the recursion shallow
\* for a report of thousands of slots).
RECURSIVE EventsOf(_, _, _, _)
EventsOf(slots, lo, hi, timerfd) ==
    IF lo > hi THEN <<>>
    ELSE IF lo = hi THEN EventOf(slots[lo], timerfd)
    ELSE LET mid == (lo + hi) \div 2
         IN  EventsOf(slots, lo, mid, timerfd) \o EventsOf(slots, mid + 1, hi, timerfd)

SinkIsReportInOrder ==
    /\ InDispatch => sink = <<>>
    /\ (phase = "ready" /\ pc = "idle" /\ ret # NoRet) =>
          /\ wres.res = -1 => sink = <<>>
          /\ wres.res >= 0 => sink = EventsOf(wres.slots, 1, Len(wres.slots), epollop.timerfd)

WitnessC18 ==
    /\ phase = "ready" /\ pc = "idle" /\ ret = <<0>>
    /\ epollop.timerfd = TimerFd
    /\ Len(wres.slots) = 3
    /\ wres.slots[2].fd = TimerFd
    /\ sink = <<[fd |-> 2, ev |-> {"R", "W", "ET"}]>>

\* C19: a record added to the pending list while the wait call is
\* outstanding is left alone by that dispatch call: from the release of the
\* lock to the return, the dispatching thread neither changes the pending
\* list nor issues a control call; only a request adds to the list or
\* rewrites the record of its descriptor, and only the flush empties it; the
\* flush of the next dispatch call applies every pending record, once each.
DispatchStepAfterRelease == pc \in {"waiting", "woken", "locked"} /\ pc' # pc

FlushStep == pc = "idle" /\ pc' = "flushed"

RequestStep ==
    /\ nreq' = nreq + 1
    /\ Len(changelist') >= Len(changelist)
    /\ \A i \in 1..Len(changelist) : changelist'[i].fd = changelist[i].fd

PendingDuringWaitKept ==
    [][/\ DispatchStepAfterRelease =>
            /\ changelist' = changelist
            /\ kernel' = kernel
            /\ flushLog' = flushLog
       /\ changelist' # changelist => FlushStep \/ RequestStep
       /\ FlushStep =>
            /\ changelist' = <<>>
            /\ Len(flushLog') = Len(changelist)
            /\ \A i \in 1..Len(changelist) : flushLog'[i].ch = changelist[i]]_vars

WitnessC19 ==
    /\ pc = "locked"
    /\ lock = "loop"
    /\ changelist # <<>>

\* C20: between init and teardown the recorded capacity is one of 32, 64,
\* ..., 4096 and equals the number of slots of the buffer, also after a
\* failed growth attempt; the wait call never reports more slots than the
\* capacity or than the buffer holds; and the capacity never decreases.
Capacities == {32, 64, 128, 256, 512, 1024, 2048, 4096}

CapacityIsBufferSize ==
    /\ [](phase = "ready" =>
            /\ epollop.nevents \in Capacities
            /\ epollop.events = epollop.nevents
            /\ pc \in {"woken", "locked"} =>
                  /\ wres.res <= epollop.nevents
                  /\ Len(wres.slots) <= epollop.events)
    /\ [][(phase = "ready" /\ phase' = "ready") =>
            /\ epollop'.nevents >= epollop.nevents
            /\ epollop'.events >= epollop.events]_vars

WitnessC20 ==
    /\ phase = "ready" /\ pc = "idle"
    /\ growth = Growth(64, "failed")
    /\ wres.res = 64
    /\ epollop.nevents = 64 /\ epollop.events = 64

====
